---- MODULE Spec2Model ----
(***************************************************************************)
(* Model of the voice-activity detector of speech/detector.go: the window  *)
(* accumulator (Detect, DetectStream), the hysteresis trigger              *)
(* (processWindow, advanceSpeech), Reset and SetThreshold, together with   *)
(* the bookkeeping Infer does around the inference engine.                 *)
(*                                                                         *)
(* Units.  Probabilities and thresholds are integers in hundredths         *)
(* (0.5 is 50, the release gap 0.15 is 15).  A timestamp t seconds is      *)
(* kept as the integer n with t = n / SampleRate: the code computes        *)
(* float64(n) / float64(SampleRate), which is exact enough to be           *)
(* injective and monotone in n for every n the model reaches, so the       *)
(* comparisons the code makes on timestamps (== 0, ==, < 0) are the        *)
(* comparisons the model makes on n.  Seconds are recovered by Millis.     *)
(*                                                                         *)
(* The inference engine is opaque.  Its probability output is an input of  *)
(* each step; its recurrent state is kept as the list of what the engine   *)
(* has been fed since the state was last zeroed (the free interpretation   *)
(* of the state update).  A sample is a label: the caller supplies the     *)
(* samples of a recording in order, sample number i carrying the label i,  *)
(* and 0 is the value of a cleared buffer cell.                            *)
(***************************************************************************)
EXTENDS Integers, Sequences, FiniteSets, TLC

\* ------------------------------------------------------------------ bounds

\* Most windows a recording is long (samples supplied since the last Reset).
MaxWindows == 3
\* Most windows of a recording when the threshold is left alone and the
\* engine does not fail.
MaxLongWindows == 6
\* Most SetThreshold calls in a behaviour.
MaxSetThreshold == 1
\* Most failed inference calls in a behaviour.
MaxFailures == 1

\* --------------------------------------------------------------- constants

contextLen == 64

\* The release gap of advanceSpeech (0.15), in hundredths.
ReleaseGap == 15

\* Probabilities the engine returns (hundredths): below release for a
\* threshold of 50, inside the hysteresis gap, and speech.
ProbSet == {10, 40, 60}

\* Thresholds handed to SetThreshold (hundredths): one in range, one not.
SetThresholdValues == {30, 100}

\* Configured durations in milliseconds.
MinSilenceSet == {0, 40}
SpeechPadSet == {0, 40}

\* ----------------------------------------------------------------- helpers

Max(a, b) == IF a >= b THEN a ELSE b
Min(a, b) == IF a <= b THEN a ELSE b

\* make([]float32, n)
Zeros(n) == [i \in 1..n |-> 0] \o << >>

\* s[lo:hi] of Go, 0-based half-open, as a 1-based sequence.
Slice(s, lo, hi) == SubSeq(s, lo + 1, hi)

\* The longest window (16000 Hz) and the recording the caller plays: sample
\* number i carries the label i.
LongestWindow == 512
Recording == [i \in 1..(Max(MaxWindows, MaxLongWindows) * LongestWindow) |-> i] \o << >>

\* The next n samples of the recording after the first `from` ones.
Samples(from, n) == SubSeq(Recording, from + 1, from + n)

\* The float32 NaN, which a Threshold can be, kept as a number no threshold
\* in hundredths is; every comparison with it is false, and arithmetic on it
\* gives it back.
NaN == -1000000
FLess(a, b) == a # NaN /\ b # NaN /\ a < b
FLeq(a, b) == a # NaN /\ b # NaN /\ a <= b
FGeq(a, b) == a # NaN /\ b # NaN /\ a >= b
FSub(a, b) == IF a = NaN \/ b = NaN THEN NaN ELSE a - b

\* t seconds = n / rate, in milliseconds when that is a whole number.
Millis(n, rate) == (n * 1000) \div rate

windowSizeForSampleRate(sampleRate) == IF sampleRate = 8000 THEN 256 ELSE 512

\* DetectorConfig.IsValid: "nil" or the first invalid field.
IsValid(c) ==
  IF c.ModelPath = "" THEN "invalid ModelPath"
  ELSE IF c.SampleRate # 8000 /\ c.SampleRate # 16000 THEN "invalid SampleRate"
  ELSE IF FLeq(c.Threshold, 0) \/ FGeq(c.Threshold, 100) THEN "invalid Threshold"
  ELSE IF c.MinSilenceDurationMs < 0 THEN "invalid MinSilenceDurationMs"
  ELSE IF c.SpeechPadMs < 0 THEN "invalid SpeechPadMs"
  ELSE "nil"

\* The zeroed recurrent state: the engine has been fed nothing.
ZeroState == << >>

\* NewDetector on a valid configuration.
NewDetector(cfg) ==
  [ cfg               |-> cfg,
    state             |-> ZeroState,
    windowSize        |-> windowSizeForSampleRate(cfg.SampleRate),
    inputBuf          |-> Zeros(contextLen + windowSizeForSampleRate(cfg.SampleRate)),
    streamBuf         |-> << >>,
    pendingStart      |-> 0,
    pendingStartValid |-> FALSE,
    currSample        |-> 0,
    triggered         |-> FALSE,
    tempEnd           |-> 0 ]

\* The nil *Detector NewDetector returns with an error.
NoDetector == [nil |-> TRUE]

\* NewDetector on any configuration: the configuration error of IsValid, an
\* error of the runtime when the session cannot be created (loads is
\* FALSE), or the detector.
NewDetectorChecked(cfg, loads) ==
  IF IsValid(cfg) # "nil"
  THEN [sd |-> NoDetector, err |-> IsValid(cfg)]
  ELSE IF ~loads
  THEN [sd |-> NoDetector, err |-> "failed to create session"]
  ELSE [sd |-> NewDetector(cfg), err |-> "nil"]

\* What the engine retains of one input buffer: its context and its window,
\* each by its first and last sample.
Digest(inputBuf) ==
  << inputBuf[1], inputBuf[contextLen], inputBuf[contextLen + 1], inputBuf[Len(inputBuf)] >>

\* The recurrent state the engine hands back (memcpy of stateN).
StateN(state, inputBuf) == Append(state, Digest(inputBuf))

\* copy(dst[at:], src) of Go: min(len(dst) - at, len(src)) cells are written.
CopyAt(dst, at, src) ==
  LET k == Min(Len(dst) - at, Len(src)) IN
  SubSeq(dst, 1, at) \o SubSeq(src, 1, k) \o SubSeq(dst, at + k + 1, Len(dst))

\* Detector.Infer.  p is the probability the engine returns, fail whether the
\* engine call fails.  Returns the detector, the probability and the error.
Infer(sd, samples, p, fail) ==
  IF Len(samples) # sd.windowSize
  THEN [sd |-> sd, prob |-> 0, err |-> "invalid samples length"]
  ELSE
    LET buf == CopyAt(sd.inputBuf, contextLen, samples) IN
    IF fail
    THEN [sd |-> [sd EXCEPT !.inputBuf = buf], prob |-> 0, err |-> "failed to run"]
    ELSE [sd |-> [sd EXCEPT !.state = StateN(sd.state, buf),
                            !.inputBuf = CopyAt(buf, 0, Slice(buf, sd.windowSize, Len(buf)))],
          prob |-> p, err |-> "nil"]

\* The zero speechEvent.
NoEvent == [hasStart |-> FALSE, startAt |-> 0, hasEnd |-> FALSE, endAt |-> 0, endStartAt |-> 0]

\* An advanceSpeech in which speech does not cancel a pending release.
keepRelease(sd, speechProb) == sd

\* An advanceSpeech in which a probability in the gap below the threshold
\* cancels a pending release too.
cancelReleaseInGap(sd, speechProb) ==
  IF FGeq(speechProb, FSub(sd.cfg.Threshold, ReleaseGap)) /\ sd.tempEnd # 0
  THEN [sd EXCEPT !.tempEnd = 0]
  ELSE sd

\* advanceSpeech, the cancelling of a pending release:
\* speechProb >= Threshold && tempEnd != 0.
cancelRelease(sd, speechProb) ==
  IF FGeq(speechProb, sd.cfg.Threshold) /\ sd.tempEnd # 0
  THEN [sd EXCEPT !.tempEnd = 0]
  ELSE sd

\* A release test without the hysteresis gap.
belowThreshold(sd, speechProb) == speechProb < sd.cfg.Threshold

\* advanceSpeech, the release test: speechProb < Threshold - 0.15.
belowRelease(sd, speechProb) == FLess(speechProb, FSub(sd.cfg.Threshold, ReleaseGap))

\* A start that is not clamped at zero.
speechStartAtUnclamped(sd, speechPadSamples) ==
  sd.currSample - sd.windowSize - speechPadSamples

\* advanceSpeech, the start it reports: the first sample of the window just
\* consumed, less the padding, clamped at zero.
speechStartAtOf(sd, speechPadSamples) ==
  Max(0, sd.currSample - sd.windowSize - speechPadSamples)

\* An end clamped at the samples consumed so far.
speechEndAtClamped(sd, speechPadSamples) ==
  Min(sd.currSample, sd.tempEnd + speechPadSamples)

\* advanceSpeech, the end it reports: the pending release plus the padding.
speechEndAtOf(sd, speechPadSamples) == sd.tempEnd + speechPadSamples

\* An advanceSpeech that starts a segment at every window of speech.
startSpeechAgain(sd, speechProb, speechPadSamples) ==
  IF FGeq(speechProb, sd.cfg.Threshold)
  THEN [sd    |-> [sd EXCEPT !.triggered = TRUE,
                             !.pendingStart = speechStartAtOf(sd, speechPadSamples),
                             !.pendingStartValid = TRUE],
        event |-> [NoEvent EXCEPT !.hasStart = TRUE,
                                  !.startAt = speechStartAtOf(sd, speechPadSamples)]]
  ELSE [sd |-> sd, event |-> NoEvent]

\* advanceSpeech, the start: speechProb >= Threshold && !triggered opens a
\* segment and reports its start.  Returns the detector and the event so far.
startSpeech(sd, speechProb, speechPadSamples) ==
  IF FGeq(speechProb, sd.cfg.Threshold) /\ ~sd.triggered
  THEN [sd    |-> [sd EXCEPT !.triggered = TRUE,
                             !.pendingStart = speechStartAtOf(sd, speechPadSamples),
                             !.pendingStartValid = TRUE],
        event |-> [NoEvent EXCEPT !.hasStart = TRUE,
                                  !.startAt = speechStartAtOf(sd, speechPadSamples)]]
  ELSE [sd |-> sd, event |-> NoEvent]

\* advanceSpeech, the candidate release point: tempEnd = currSample when no
\* release is pending.
markRelease(sd) == IF sd.tempEnd = 0 THEN [sd EXCEPT !.tempEnd = sd.currSample] ELSE sd

\* An advanceSpeech that ends a segment without clearing the release point.
endSpeechKeepingTempEnd(sd, event, minSilenceSamples, speechPadSamples) ==
  IF sd.currSample - sd.tempEnd < minSilenceSamples
  THEN [sd |-> sd, event |-> event, err |-> "nil"]
  ELSE IF ~sd.pendingStartValid
  THEN [sd |-> [sd EXCEPT !.triggered = FALSE],
        event |-> event, err |-> "unexpected speech end"]
  ELSE [sd |-> [sd EXCEPT !.triggered = FALSE, !.pendingStartValid = FALSE],
        event |-> [event EXCEPT !.hasEnd = TRUE,
                                !.endAt = speechEndAtOf(sd, speechPadSamples),
                                !.endStartAt = sd.pendingStart],
        err |-> "nil"]

\* advanceSpeech, from the debounce on: too little silence returns the event
\* so far; otherwise the segment ends at speechEndAt.
endSpeech(sd, event, minSilenceSamples, speechPadSamples) ==
  IF sd.currSample - sd.tempEnd < minSilenceSamples
  THEN [sd |-> sd, event |-> event, err |-> "nil"]
  ELSE IF ~sd.pendingStartValid
  THEN [sd |-> [sd EXCEPT !.tempEnd = 0, !.triggered = FALSE],
        event |-> event, err |-> "unexpected speech end"]
  ELSE [sd |-> [sd EXCEPT !.tempEnd = 0, !.triggered = FALSE, !.pendingStartValid = FALSE],
        event |-> [event EXCEPT !.hasEnd = TRUE,
                                !.endAt = speechEndAtOf(sd, speechPadSamples),
                                !.endStartAt = sd.pendingStart],
        err |-> "nil"]

\* advanceSpeech, the release: speechProb < Threshold - 0.15 && triggered.
\* started is what startSpeech returned.
releaseSpeech(started, speechProb, minSilenceSamples, speechPadSamples) ==
  IF belowRelease(started.sd, speechProb) /\ started.sd.triggered
  THEN endSpeech(markRelease(started.sd), started.event, minSilenceSamples, speechPadSamples)
  ELSE [sd |-> started.sd, event |-> started.event, err |-> "nil"]

\* Detector.advanceSpeech.
advanceSpeech(sd, speechProb, minSilenceSamples, speechPadSamples) ==
  releaseSpeech(startSpeech(cancelRelease(sd, speechProb), speechProb, speechPadSamples),
                speechProb, minSilenceSamples, speechPadSamples)

\* What the record of a step keeps of the window handed to Infer: its first
\* sample, its length, and whether it is that many consecutive samples of
\* the recording.
WindowSeen(window) ==
  [ first |-> IF Len(window) > 0 THEN window[1] ELSE 0,
    len   |-> Len(window),
    run   |-> /\ Len(window) > 0
              /\ window[1] >= 1
              /\ window[1] + Len(window) - 1 <= Len(Recording)
              /\ window = Samples(window[1] - 1, Len(window)) ]

\* The record of one step of processWindow: the window, whether inference
\* answered, the probability and the threshold it was judged against, the
\* event, and the trigger state the step left.
StepSeen(window, ok, p, th, event, d) ==
  [ window |-> WindowSeen(window), ok |-> ok, p |-> p, th |-> th, event |-> event,
    triggered |-> d.triggered, tempEnd |-> d.tempEnd,
    pendingStart |-> d.pendingStart, pendingStartValid |-> d.pendingStartValid,
    currSample |-> d.currSample ]

\* processWindow after advanceSpeech returned adv: the event, the error and
\* the record of the step.
windowDone(window, p, th, adv) ==
  [sd |-> adv.sd, event |-> adv.event, err |-> adv.err,
   step |-> StepSeen(window, TRUE, p, th, adv.event, adv.sd)]

\* A processWindow that hands the probability to advanceSpeech before it
\* looks at the error of the inference.
windowJudgedAnyway(window, p, th, inf, minSilenceSamples, speechPadSamples) ==
  IF inf.err # "nil"
  THEN [sd |-> advanceSpeech(inf.sd, inf.prob, minSilenceSamples, speechPadSamples).sd,
        event |-> NoEvent, err |-> "infer failed",
        step |-> StepSeen(window, FALSE, p, th, NoEvent,
                          advanceSpeech(inf.sd, inf.prob, minSilenceSamples,
                                        speechPadSamples).sd)]
  ELSE windowDone(window, p, th,
                  advanceSpeech([inf.sd EXCEPT !.currSample = @ + inf.sd.windowSize],
                                inf.prob, minSilenceSamples, speechPadSamples))

\* A processWindow that counts a window before its inference has answered.
windowCounted(window, p, th, inf, minSilenceSamples, speechPadSamples) ==
  IF inf.err # "nil"
  THEN [sd |-> [inf.sd EXCEPT !.currSample = @ + inf.sd.windowSize],
        event |-> NoEvent, err |-> "infer failed",
        step |-> StepSeen(window, FALSE, p, th, NoEvent,
                          [inf.sd EXCEPT !.currSample = @ + inf.sd.windowSize])]
  ELSE windowDone(window, p, th,
                  advanceSpeech([inf.sd EXCEPT !.currSample = @ + inf.sd.windowSize],
                                inf.prob, minSilenceSamples, speechPadSamples))

\* processWindow after Infer returned inf: an error ends it, otherwise
\* currSample advances by a window and advanceSpeech runs.
windowInferred(window, p, th, inf, minSilenceSamples, speechPadSamples) ==
  IF inf.err # "nil"
  THEN [sd |-> inf.sd, event |-> NoEvent, err |-> "infer failed",
        step |-> StepSeen(window, FALSE, p, th, NoEvent, inf.sd)]
  ELSE windowDone(window, p, th,
                  advanceSpeech([inf.sd EXCEPT !.currSample = @ + inf.sd.windowSize],
                                inf.prob, minSilenceSamples, speechPadSamples))

\* Detector.processWindow.  Besides the event and the error it returns the
\* record of the step.
processWindow(sd, window, p, fail, minSilenceSamples, speechPadSamples) ==
  windowInferred(window, p, sd.cfg.Threshold, Infer(sd, window, p, fail),
                 minSilenceSamples, speechPadSamples)

\* A Segment.
Segment(startAt, endAt) == [SpeechStartAt |-> startAt, SpeechEndAt |-> endAt]

\* A Detect that ignores an end whose start it did not see.
BatchSegmentsOwnOnly(segments, event) ==
  IF event.hasStart
  THEN Append(segments, Segment(event.startAt, 0))
  ELSE IF /\ event.hasEnd
          /\ Len(segments) > 0
          /\ segments[Len(segments)].SpeechEndAt = 0
          /\ segments[Len(segments)].SpeechStartAt = event.endStartAt
  THEN [segments EXCEPT ![Len(segments)].SpeechEndAt = event.endAt]
  ELSE segments

\* Detect's handling of one event: a start appends an open segment, an end
\* closes the last segment when it is open and carries the same start, and is
\* appended as a segment of its own otherwise.
BatchSegments(segments, event) ==
  LET seg1 == IF event.hasStart
              THEN Append(segments, Segment(event.startAt, 0))
              ELSE segments
      n == Len(seg1)
  IN
  IF event.hasEnd
  THEN IF n > 0 /\ seg1[n].SpeechEndAt = 0 /\ seg1[n].SpeechStartAt = event.endStartAt
       THEN [seg1 EXCEPT ![n].SpeechEndAt = event.endAt]
       ELSE Append(seg1, Segment(event.endStartAt, event.endAt))
  ELSE seg1

\* DetectStream's handling of one event: every start and every end is a
\* segment of its own.
StreamSegments(segments, event) ==
  LET seg1 == IF event.hasStart
              THEN Append(segments, Segment(event.startAt, 0))
              ELSE segments
  IN IF event.hasEnd
     THEN Append(seg1, Segment(event.endStartAt, event.endAt))
     ELSE seg1

\* windowSize == 0 is the zero Detector value; a constructed one has it set.
WithWindowSize(sd) ==
  IF sd.windowSize = 0
  THEN [sd EXCEPT !.windowSize = windowSizeForSampleRate(sd.cfg.SampleRate)]
  ELSE sd

minSilenceSamplesOf(sd) == (sd.cfg.MinSilenceDurationMs * sd.cfg.SampleRate) \div 1000
speechPadSamplesOf(sd) == (sd.cfg.SpeechPadMs * sd.cfg.SampleRate) \div 1000

\* What the engine returns for window k of a call (0 when it was asked about
\* more windows than the caller reckoned with).
ProbAt(probs, k) == IF k \in DOMAIN probs THEN probs[k] ELSE 0

\* A Detect that returns the segments found before the failing window.
DetectStepKeeping(r, pcm, i, k, segments, steps, probs, failAt) ==
  [sd |-> r.sd, segments |-> segments, err |-> r.err, steps |-> Append(steps, r.step)]

\* The loop of Detect from offset i; k counts the windows of the call.
\* probs[k] is what the engine returns for window k, failAt the window whose
\* inference fails (0: none).  DetectStep is the body of the loop after
\* processWindow returned r.
RECURSIVE DetectLoop(_, _, _, _, _, _, _, _)
RECURSIVE DetectStep(_, _, _, _, _, _, _, _)
DetectStep(r, pcm, i, k, segments, steps, probs, failAt) ==
  IF r.err # "nil"
  THEN [sd |-> r.sd, segments |-> << >>, err |-> r.err, steps |-> Append(steps, r.step)]
  ELSE DetectLoop(r.sd, pcm, i + r.sd.windowSize, k + 1,
                  BatchSegments(segments, r.event), Append(steps, r.step), probs, failAt)

DetectLoop(sd, pcm, i, k, segments, steps, probs, failAt) ==
  IF i + sd.windowSize > Len(pcm)
  THEN [sd |-> sd, segments |-> segments, err |-> "nil", steps |-> steps]
  ELSE DetectStep(processWindow(sd, Slice(pcm, i, i + sd.windowSize), ProbAt(probs, k),
                                failAt = k, minSilenceSamplesOf(sd), speechPadSamplesOf(sd)),
                  pcm, i, k, segments, steps, probs, failAt)

\* A test of Detect's input that rejects only the empty buffer.
emptyInput(sd, pcm) == Len(pcm) = 0

\* Detect's test of its input: len(pcm) < windowSize.
notEnoughSamples(sd, pcm) == Len(pcm) < sd.windowSize

\* A Detect that leaves the samples after the last whole window in the
\* carry-over buffer.
DetectWindowedBuffering(sd, pcm, probs, failAt) ==
  IF notEnoughSamples(sd, pcm)
  THEN [sd |-> sd, segments |-> << >>, err |-> "not enough samples", steps |-> << >>]
  ELSE [DetectLoop(sd, pcm, 0, 1, << >>, << >>, probs, failAt) EXCEPT
          !.sd.streamBuf = Slice(pcm, (Len(pcm) \div sd.windowSize) * sd.windowSize, Len(pcm))]

\* Detect on a detector whose windowSize is set.
DetectWindowed(sd, pcm, probs, failAt) ==
  IF notEnoughSamples(sd, pcm)
  THEN [sd |-> sd, segments |-> << >>, err |-> "not enough samples", steps |-> << >>]
  ELSE DetectLoop(sd, pcm, 0, 1, << >>, << >>, probs, failAt)

\* Detector.Detect.
Detect(sd0, pcm, probs, failAt) == DetectWindowed(WithWindowSize(sd0), pcm, probs, failAt)

\* A DetectStream that drops the remainder, as Detect does.
DropRemainder(sd, pcm, index) == sd

\* DetectStream, the remainder it buffers: pcm[index:] when index < len(pcm).
KeepRemainder(sd, pcm, index) ==
  IF index < Len(pcm)
  THEN [sd EXCEPT !.streamBuf = @ \o Slice(pcm, index, Len(pcm))]
  ELSE sd

\* A topping up that takes the whole chunk.
TopUpWhole(sd, pcm, needed) == [sd EXCEPT !.streamBuf = @ \o pcm]

\* DetectStream, the topping up of the carry-over buffer with pcm[:needed].
TopUp(sd, pcm, needed) == [sd EXCEPT !.streamBuf = @ \o Slice(pcm, 0, needed)]

\* The second loop of DetectStream and the remainder it buffers.  StreamStep
\* is the body of the loop after processWindow returned r.
RECURSIVE StreamLoop(_, _, _, _, _, _, _, _)
RECURSIVE StreamStep(_, _, _, _, _, _, _, _)
StreamStep(r, pcm, index, k, segments, steps, probs, failAt) ==
  IF r.err # "nil"
  THEN [sd |-> r.sd, segments |-> << >>, err |-> r.err, steps |-> Append(steps, r.step)]
  ELSE StreamLoop(r.sd, pcm, index + r.sd.windowSize, k + 1,
                  StreamSegments(segments, r.event), Append(steps, r.step), probs, failAt)

StreamLoop(sd, pcm, index, k, segments, steps, probs, failAt) ==
  IF index + sd.windowSize <= Len(pcm)
  THEN StreamStep(processWindow(sd, Slice(pcm, index, index + sd.windowSize), ProbAt(probs, k),
                                failAt = k, minSilenceSamplesOf(sd), speechPadSamplesOf(sd)),
                  pcm, index, k, segments, steps, probs, failAt)
  ELSE
    [sd |-> KeepRemainder(sd, pcm, index),
     segments |-> segments, err |-> "nil", steps |-> steps]

\* DetectStream after the topped-up carry-over buffer went through
\* processWindow, which returned r: an error ends the call with the buffer
\* as it is; otherwise the buffer is cleared and the loop runs from needed.
CarryOverDone(r, pcm, needed, probs, failAt) ==
  IF r.err # "nil"
  THEN [sd |-> r.sd, segments |-> << >>, err |-> r.err, steps |-> <<r.step>>]
  ELSE StreamLoop([r.sd EXCEPT !.streamBuf = << >>], pcm, needed, 2,
                  StreamSegments(<< >>, r.event), <<r.step>>, probs, failAt)

\* DetectStream, the carry-over buffer topped up to a window (full) and
\* handed to processWindow.
CarryOver(full, pcm, needed, probs, failAt) ==
  CarryOverDone(processWindow(full, full.streamBuf, ProbAt(probs, 1), failAt = 1,
                              minSilenceSamplesOf(full), speechPadSamplesOf(full)),
                pcm, needed, probs, failAt)

\* DetectStream on a chunk that is not empty.
DetectStreamChunk(sd, pcm, probs, failAt) ==
  IF Len(sd.streamBuf) > 0
  THEN
    IF Len(pcm) < sd.windowSize - Len(sd.streamBuf)
    THEN [sd |-> [sd EXCEPT !.streamBuf = @ \o pcm],
          segments |-> << >>, err |-> "nil", steps |-> << >>]
    ELSE CarryOver(TopUp(sd, pcm, sd.windowSize - Len(sd.streamBuf)), pcm,
                   sd.windowSize - Len(sd.streamBuf), probs, failAt)
  ELSE StreamLoop(sd, pcm, 0, 1, << >>, << >>, probs, failAt)

\* A DetectStream without the early return on an empty chunk.
DetectStreamEveryChunk(sd0, pcm, probs, failAt) ==
  DetectStreamChunk(WithWindowSize(sd0), pcm, probs, failAt)

\* Detector.DetectStream.
DetectStream(sd0, pcm, probs, failAt) ==
  IF Len(pcm) = 0
  THEN [sd |-> sd0, segments |-> << >>, err |-> "nil", steps |-> << >>]
  ELSE DetectStreamChunk(WithWindowSize(sd0), pcm, probs, failAt)

\* A Reset that leaves triggered as it is.
ResetKeepingTriggered(sd) ==
  [sd EXCEPT !.currSample = 0,
             !.tempEnd = 0,
             !.pendingStart = 0,
             !.pendingStartValid = FALSE,
             !.streamBuf = << >>,
             !.state = ZeroState,
             !.inputBuf = Zeros(Len(sd.inputBuf))]

\* A Reset that leaves the carry-over buffer as it is.
ResetKeepingStreamBuf(sd) ==
  [sd EXCEPT !.currSample = 0,
             !.triggered = FALSE,
             !.tempEnd = 0,
             !.pendingStart = 0,
             !.pendingStartValid = FALSE,
             !.state = ZeroState,
             !.inputBuf = Zeros(Len(sd.inputBuf))]

\* Detector.Reset.
Reset(sd) ==
  [sd EXCEPT !.currSample = 0,
             !.triggered = FALSE,
             !.tempEnd = 0,
             !.pendingStart = 0,
             !.pendingStartValid = FALSE,
             !.streamBuf = << >>,
             !.state = ZeroState,
             !.inputBuf = Zeros(Len(sd.inputBuf))]

\* A SetThreshold that also drops a pending release.
SetThresholdClearingRelease(sd, value) == [sd EXCEPT !.cfg.Threshold = value, !.tempEnd = 0]

\* Detector.SetThreshold.
SetThreshold(sd, value) == [sd EXCEPT !.cfg.Threshold = value]

\* ------------------------------------------------------------ the machine

VARIABLES
  sd,        \* the Detector
  fed,       \* samples the caller has supplied since construction or Reset
  hist,      \* the steps of processWindow since construction or Reset
  events,    \* the segments DetectStream has returned since then, in order
  ret,       \* what the last call returned
  used,      \* the kinds of call made since construction or Reset
  recLen,    \* windows in the recording the caller plays
  setsLeft,  \* SetThreshold calls the caller has yet to make
  failsLeft  \* inference calls the engine has yet to fail

vars == <<sd, fed, hist, events, ret, used, recLen, setsLeft, failsLeft>>

\* NewDetector's configurations over the bounded sets; the detector exists
\* only for those IsValid accepts.
Configs(rates) ==
  { c \in [ ModelPath : {"silero_vad.onnx"},
            SampleRate : rates,
            Threshold : {50},
            MinSilenceDurationMs : MinSilenceSet,
            SpeechPadMs : SpeechPadSet ] : IsValid(c) = "nil" }

\* Lengths of the buffers handed to Detect and of the chunks handed to
\* DetectStream: empty, shorter than a window, a window, longer and unaligned.
DetectLens(W) == {0, 100, W, 2 * W + 100}
StreamLens(W) == {0, 100, W, 2 * W - 100}

\* The same for a long recording: the whole of it or two windows to Detect,
\* a window or more to DetectStream.
LongDetectLens(W) == {recLen * W, 2 * W}
LongStreamLens(W) == {W, W + 100}

\* Windows a DetectStream call over n samples hands to processWindow.
StreamWindows(d, n) ==
  IF n = 0 THEN 0
  ELSE IF Len(d.streamBuf) > 0
       THEN IF n < d.windowSize - Len(d.streamBuf)
            THEN 0
            ELSE 1 + (n - (d.windowSize - Len(d.streamBuf))) \div d.windowSize
       ELSE n \div d.windowSize

\* Windows a Detect call over n samples hands to processWindow.
DetectWindows(d, n) == n \div d.windowSize

\* Which window of a call of m windows fails (0: none).
FailChoices(m) == IF failsLeft > 0 THEN 0..m ELSE {0}

\* What the engine returns for the windows of a call of m windows: a
\* probability for each window it is asked about and answers, none (0) for
\* the window it fails on, after which it is not asked again.
ProbChoices(m, failAt) ==
  IF failAt = 0
  THEN [1..m -> ProbSet]
  ELSE { q \o <<0>> : q \in [1..(failAt - 1) -> ProbSet] }

Returned(op, n, r) == [op |-> op, n |-> n, segments |-> r.segments, err |-> r.err]
Nothing == [segments |-> << >>, err |-> "nil"]

InitWith(configs, windows, sets, fails) ==
  /\ \E c \in configs : sd = NewDetector(c)
  /\ fed = 0
  /\ hist = << >>
  /\ events = << >>
  /\ ret = Returned("NewDetector", 0, Nothing)
  /\ used = {}
  /\ recLen = windows
  /\ setsLeft = sets
  /\ failsLeft = fails

Init == InitWith(Configs({8000}), MaxWindows, MaxSetThreshold, MaxFailures)

\* What a Detect call over n samples that returned r leaves.  A buffer
\* Detect rejects as too short stays with the caller.
DetectReturned(n, failAt, r) ==
  /\ sd' = r.sd
  /\ fed' = IF r.err = "not enough samples" THEN fed ELSE fed + n
  /\ hist' = hist \o r.steps
  /\ ret' = Returned("Detect", n, r)
  /\ used' = used \cup {"Detect"} \cup (IF failAt # 0 THEN {"failure"} ELSE {})
  /\ failsLeft' = IF failAt # 0 THEN failsLeft - 1 ELSE failsLeft
  /\ UNCHANGED <<events, recLen, setsLeft>>

\* The caller hands Detect the next n samples of the recording.
DetectCall(lens) ==
  \E n \in lens :
    /\ fed + n <= recLen * sd.windowSize
    /\ \E failAt \in FailChoices(DetectWindows(sd, n)) :
       \E probs \in ProbChoices(DetectWindows(sd, n), failAt) :
         DetectReturned(n, failAt, Detect(sd, Samples(fed, n), probs, failAt))

\* What a DetectStream call over n samples that returned r leaves.
StreamReturned(n, failAt, r) ==
  /\ sd' = r.sd
  /\ fed' = fed + n
  /\ hist' = hist \o r.steps
  /\ events' = events \o r.segments
  /\ ret' = Returned("DetectStream", n, r)
  /\ used' = used \cup {"DetectStream"} \cup (IF failAt # 0 THEN {"failure"} ELSE {})
  /\ failsLeft' = IF failAt # 0 THEN failsLeft - 1 ELSE failsLeft
  /\ UNCHANGED <<recLen, setsLeft>>

\* The caller hands DetectStream the next n samples of the recording.
StreamCall(lens) ==
  \E n \in lens :
    /\ fed + n <= recLen * sd.windowSize
    /\ \E failAt \in FailChoices(StreamWindows(sd, n)) :
       \E probs \in ProbChoices(StreamWindows(sd, n), failAt) :
         StreamReturned(n, failAt, DetectStream(sd, Samples(fed, n), probs, failAt))

CallDetect == DetectCall(DetectLens(sd.windowSize))

CallDetectStream == StreamCall(StreamLens(sd.windowSize))

CallReset ==
  /\ sd' = Reset(sd)
  /\ fed' = 0
  /\ hist' = << >>
  /\ events' = << >>
  /\ ret' = Returned("Reset", 0, Nothing)
  /\ used' = {}
  /\ UNCHANGED <<recLen, setsLeft, failsLeft>>

CallSetThreshold ==
  /\ setsLeft > 0
  /\ \E value \in SetThresholdValues :
       /\ sd' = SetThreshold(sd, value)
       /\ ret' = Returned("SetThreshold", 0, Nothing)
       /\ used' = used \cup {"SetThreshold"}
       /\ setsLeft' = setsLeft - 1
  /\ UNCHANGED <<fed, hist, events, recLen, failsLeft>>

Next == CallDetect \/ CallDetectStream \/ CallReset \/ CallSetThreshold

\* Every operation, on short recordings at 8000 Hz, with an engine that may
\* fail.
Spec == Init /\ [][Next]_vars

\* Long recordings at 16000 Hz: the caller leaves the threshold alone and the
\* engine answers every call.
LongDetect == DetectCall(LongDetectLens(sd.windowSize))

LongDetectStream == StreamCall(LongStreamLens(sd.windowSize))

InitLong == InitWith(Configs({16000}), MaxLongWindows, 0, 0)

NextLong == LongDetect \/ LongDetectStream \/ CallReset

SpecLong == InitLong /\ [][NextLong]_vars

\* Construction alone: the caller hands NewDetector configurations, valid
\* and invalid in every field, and the runtime may fail to load the model.
NewConfigs ==
  [ ModelPath : {"", "silero_vad.onnx"},
    SampleRate : {8000, 16000, 44100},
    Threshold : {NaN, 0, 1, 50, 100},
    MinSilenceDurationMs : {-1, 0, 40},
    SpeechPadMs : {-1, 0, 40} ]

\* What a NewDetector call on cfg that returned r leaves.
NewDetectorReturned(cfg, r) ==
  /\ sd' = r.sd
  /\ ret' = [op |-> "NewDetector", n |-> 0, segments |-> << >>, err |-> r.err, cfg |-> cfg]
  /\ fed' = 0
  /\ hist' = << >>
  /\ events' = << >>
  /\ used' = {}
  /\ UNCHANGED <<recLen, setsLeft, failsLeft>>

CallNewDetector ==
  \E cfg \in NewConfigs : \E loads \in BOOLEAN :
    NewDetectorReturned(cfg, NewDetectorChecked(cfg, loads))

InitNew ==
  /\ sd = NoDetector
  /\ fed = 0
  /\ hist = << >>
  /\ events = << >>
  /\ ret = Returned("none", 0, Nothing)
  /\ used = {}
  /\ recLen = 0
  /\ setsLeft = 0
  /\ failsLeft = 0

NextNew == CallNewDetector

SpecNew == InitNew /\ [][NextNew]_vars

\* ------------------------------------------------------------- the claims

W == sd.windowSize

\* The probabilities the engine returned for the windows processed so far.
ProbsOf(steps) == [i \in 1..Len(steps) |-> steps[i].p]

\* The (start, end) pairs a caller reconstructs from streaming events: a
\* start-only event followed by the closed event carrying the same start is
\* one pair; anything else stands as it is.
RECURSIVE Pairs(_)
Pairs(ev) ==
  IF ev = << >> THEN << >>
  ELSE IF /\ Len(ev) >= 2
          /\ ev[1].SpeechEndAt = 0
          /\ ev[2].SpeechEndAt # 0
          /\ ev[2].SpeechStartAt = ev[1].SpeechStartAt
       THEN <<ev[2]>> \o Pairs(Tail(Tail(ev)))
       ELSE <<ev[1]>> \o Pairs(Tail(ev))

\* Only successful DetectStream calls since construction or the last Reset.
StreamedOnly == used = {"DetectStream"}

\* C1: after any chunking of at least one window of samples into successful
\* DetectStream calls on a fresh or freshly reset detector, the pairs
\* reconstructed from the streaming events are the segment list one Detect
\* call returns for the whole sequence on a fresh detector given the same
\* per-window probabilities, a trailing open segment included.
C1_ChunkingInvariance ==
  (StreamedOnly /\ fed >= W) =>
    /\ Len(hist) = fed \div W
    /\ Pairs(events) =
         Detect(NewDetector(sd.cfg), Samples(0, fed), ProbsOf(hist), 0).segments

\* C1 happens: chunks unaligned with the window (100 samples, a window, the
\* rest of three windows) have produced a closed segment and then an open
\* one.
C1_Witness ==
  /\ StreamedOnly
  /\ ret.n = 2 * W - 100
  /\ fed = 3 * W
  /\ Len(events) = 3
  /\ events[3].SpeechEndAt = 0
  /\ Len(Pairs(events)) = 2

\* The configuration of the concrete scenario.
ScenarioConfig ==
  [ ModelPath |-> "silero_vad.onnx", SampleRate |-> 16000, Threshold |-> 50,
    MinSilenceDurationMs |-> 0, SpeechPadMs |-> 0 ]

\* One Detect call on a fresh detector over six windows of 512 samples with
\* the scenario's probabilities has just returned.
ScenarioRan ==
  /\ sd.cfg = ScenarioConfig
  /\ ret.op = "Detect"
  /\ ret.n = 6 * 512
  /\ Len(hist) = 6
  /\ ProbsOf(hist) = <<10, 10, 60, 60, 10, 10>>

\* C2: in the concrete scenario Detect returns exactly one segment, from
\* sample 1024 (0.064 s) to sample 2048 (0.128 s).
C2_Scenario ==
  ScenarioRan =>
    /\ ret.err = "nil"
    /\ ret.segments = <<Segment(2 * 512, 4 * 512)>>
    /\ Millis(ret.segments[1].SpeechStartAt, sd.cfg.SampleRate) = 64
    /\ Millis(ret.segments[1].SpeechEndAt, sd.cfg.SampleRate) = 128

\* The scenario has been run: Detect returned one segment, from sample 1024
\* to sample 2560 (0.160 s), the end of the first window below release.
C2_Witness == ScenarioRan /\ ret.segments = <<Segment(2 * 512, 5 * 512)>>

\* The detector was constructed with its present configuration: SetThreshold
\* has not replaced the threshold.
AsConstructed == sd.cfg \in Configs({8000, 16000})

\* An input replayed in streaming mode, in chunks that do not align with the
\* window, and the same input replayed in batch mode.
ReplayStream(d) ==
  LET a == DetectStream(d, Samples(0, 100), << >>, 0)
      b == DetectStream(a.sd, Samples(100, 2 * d.windowSize), <<60, 10>>, 0)
  IN <<a, b>>
ReplayBatch(d) == Detect(d, Samples(0, 2 * d.windowSize + 100), <<60, 10>>, 0)

\* C3: in every state Reset leaves the detector as NewDetector builds it for
\* the same configuration, so an input replayed after Reset, streamed or in
\* one batch, produces the events, segments, errors and steps it produces on
\* a freshly constructed detector.
C3_ResetDeterminism ==
  AsConstructed =>
    /\ Reset(sd) = NewDetector(sd.cfg)
    /\ ReplayStream(Reset(sd)) = ReplayStream(NewDetector(sd.cfg))
    /\ ReplayBatch(Reset(sd)) = ReplayBatch(NewDetector(sd.cfg))

\* C3 happens: a state with an open segment, a pending release, a partial
\* window in the carry-over buffer and a recurrent state that is not zero,
\* from which the replay does not go as it goes on a fresh detector.
C3_Witness ==
  /\ AsConstructed
  /\ sd.triggered
  /\ sd.pendingStartValid
  /\ sd.tempEnd # 0
  /\ Len(sd.streamBuf) > 0
  /\ sd.state # ZeroState
  /\ sd.currSample > 0
  /\ ReplayStream(sd) # ReplayStream(NewDetector(sd.cfg))

\* Step s judged its window below the release threshold, or as speech.
BelowReleaseStep(s) == s.ok /\ s.p < s.th - ReleaseGap
SpeechStep(s) == s.ok /\ s.p >= s.th

\* Windows i..j are a run below the release threshold that begins while a
\* segment is open, spans fewer samples than the minimum silence, and is
\* followed by a window of speech.
DebouncedRun(i, j) ==
  /\ 2 <= i /\ i <= j /\ j + 1 <= Len(hist)
  /\ hist[i - 1].ok
  /\ hist[i - 1].triggered
  /\ ~BelowReleaseStep(hist[i - 1])
  /\ \A k \in i..j : BelowReleaseStep(hist[k])
  /\ (j - i + 1) * W < minSilenceSamplesOf(sd)
  /\ SpeechStep(hist[j + 1])

\* The run i..j was debounced: no end and no second start in it or in the
\* window of speech after it, which leaves no release pending, the segment
\* open and its start as it was.
Debounced(i, j) ==
  /\ \A k \in i..(j + 1) : ~hist[k].event.hasEnd /\ ~hist[k].event.hasStart
  /\ hist[i].tempEnd = i * W
  /\ hist[j + 1].tempEnd = 0
  /\ hist[j + 1].triggered
  /\ hist[j + 1].pendingStartValid
  /\ hist[j + 1].pendingStart = hist[i - 1].pendingStart

\* C4 as stated: every short run below the release threshold that begins
\* while a segment is open and ends in a window of speech is debounced.
C4_DebounceAsStated ==
  \A i \in 1..Len(hist) : \A j \in i..Len(hist) :
    DebouncedRun(i, j) => Debounced(i, j)

\* C4: a short run below the release threshold that begins while a segment
\* is open and no release is pending, and ends in a window of speech, is
\* debounced: no end event, no second start event, tempEnd back to 0,
\* triggered still true, pendingStart unchanged.
C4_Debounce ==
  \A i \in 1..Len(hist) : \A j \in i..Len(hist) :
    (DebouncedRun(i, j) /\ hist[i - 1].tempEnd = 0) => Debounced(i, j)

\* C4 happens: speech, a dip shorter than the minimum silence, speech again.
C4_Witness ==
  \E i \in 1..Len(hist) : \E j \in i..Len(hist) :
    /\ DebouncedRun(i, j)
    /\ hist[i - 1].tempEnd = 0
    /\ hist[i - 1].event.hasStart
    /\ hist[j + 1].pendingStart = (i - 2) * W - speechPadSamplesOf(sd)

\* The last window of speech before window i, and the first window below the
\* release threshold after window l: the final silence run of a segment that
\* ends at window i begins there.
LastSpeechBefore(i) ==
  CHOOSE l \in 1..(i - 1) :
    SpeechStep(hist[l]) /\ \A k \in (l + 1)..(i - 1) : ~SpeechStep(hist[k])
FirstBelowAfter(l) ==
  CHOOSE f \in (l + 1)..Len(hist) :
    BelowReleaseStep(hist[f]) /\ \A k \in (l + 1)..(f - 1) : ~BelowReleaseStep(hist[k])

\* The raw release point of the segment that ends at window i: the sample
\* count at the first window below release of its final silence run.
ReleasePoint(i) == FirstBelowAfter(LastSpeechBefore(i)) * W

\* C5: a start event reports the first sample of the triggering window less
\* the padding, clamped at 0; an end event reports the raw release point plus
\* the padding, unclamped.
C5_Padding ==
  \A i \in 1..Len(hist) :
    /\ hist[i].event.hasStart =>
         hist[i].event.startAt = Max(0, (i - 1) * W - speechPadSamplesOf(sd))
    /\ hist[i].event.hasEnd =>
         /\ \E l \in 1..(i - 1) : SpeechStep(hist[l])
         /\ hist[i].event.endAt = ReleasePoint(i) + speechPadSamplesOf(sd)

\* C5 happens: with a padding longer than a window, a start was clamped at
\* 0, a later start was not, and an end was reported for a release point
\* that lay windows back.
C5_Witness ==
  /\ speechPadSamplesOf(sd) > W
  /\ \E i \in 1..Len(hist) :
       /\ hist[i].event.hasStart
       /\ (i - 1) * W - speechPadSamplesOf(sd) < 0
       /\ hist[i].event.startAt = 0
  /\ \E i \in 1..Len(hist) :
       /\ hist[i].event.hasStart
       /\ hist[i].event.startAt > 0
  /\ \E i \in 1..Len(hist) :
       /\ hist[i].event.hasEnd
       /\ ReleasePoint(i) < hist[i].currSample
       /\ hist[i].event.endAt > ReleasePoint(i)

\* Window s is the first window of speech since construction or Reset, and
\* no window after it is below the release threshold.
SustainedFrom(s) ==
  /\ s \in 1..Len(hist)
  /\ SpeechStep(hist[s])
  /\ \A k \in 1..(s - 1) : ~SpeechStep(hist[k])
  /\ \A k \in (s + 1)..Len(hist) : ~BelowReleaseStep(hist[k])

\* The one open segment that begins at window s.
OpenFrom(s) == Segment(hist[s].event.startAt, 0)

\* C6: when the probability reaches the threshold and never drops below the
\* release threshold afterwards, window s emits the only start event, no
\* window emits an end event, and the segment stays open: streaming has
\* returned that one open segment, and so has a single Detect call.
C6_OneOpenSegment ==
  \A s \in 1..Len(hist) :
    SustainedFrom(s) =>
      /\ \A k \in 1..Len(hist) : hist[k].event.hasStart <=> k = s
      /\ \A k \in 1..Len(hist) : ~hist[k].event.hasEnd
      /\ sd.triggered /\ sd.pendingStartValid /\ sd.tempEnd = 0
      /\ sd.pendingStart = hist[s].event.startAt
      /\ used = {"DetectStream"} => events = <<OpenFrom(s)>>
      /\ (used = {"Detect"} /\ Len(hist) = ret.n \div W) => ret.segments = <<OpenFrom(s)>>

\* C6 happens: speech began in the second window and four more windows
\* followed, one of them inside the hysteresis gap, in streaming mode or in
\* one batch.
C6_Witness ==
  /\ SustainedFrom(2)
  /\ Len(hist) = 6
  /\ \E k \in 3..5 : hist[k].p < hist[k].th
  /\ hist[6].p >= hist[6].th
  /\ used = {"DetectStream"} \/ (used = {"Detect"} /\ ret.n = 6 * W)

\* C7: a Detect call with fewer samples than one window, none included,
\* returns the error "not enough samples" and no segments, hands no window
\* to inference, and leaves every field of the detector as it was.
C7_DetectTooShort ==
  [][ (ret'.op = "Detect" /\ ret'.n < sd.windowSize) =>
        /\ ret'.err = "not enough samples"
        /\ ret'.segments = << >>
        /\ hist' = hist
        /\ sd' = sd ]_vars

\* C7 happens: Detect has rejected a buffer of 100 samples on a detector
\* with an open segment, a pending release, samples counted and a partial
\* window in the carry-over buffer.
C7_Witness ==
  /\ ret.op = "Detect"
  /\ ret.n = 100
  /\ ret.err = "not enough samples"
  /\ sd.triggered
  /\ sd.pendingStartValid
  /\ sd.tempEnd # 0
  /\ sd.currSample > 0
  /\ Len(sd.streamBuf) > 0

\* C8: a DetectStream call with an empty chunk returns no segments and no
\* error, hands no window to inference, and leaves every field of the
\* detector as it was, whatever the state.
C8_EmptyChunk ==
  [][ (ret'.op = "DetectStream" /\ ret'.n = 0) =>
        /\ ret'.err = "nil"
        /\ ret'.segments = << >>
        /\ hist' = hist
        /\ events' = events
        /\ sd' = sd ]_vars

\* C8 happens: DetectStream has returned from an empty chunk on a detector
\* with an open segment whose carry-over buffer holds a whole window, left
\* there by a failed inference.
C8_Witness ==
  /\ ret.op = "DetectStream"
  /\ ret.n = 0
  /\ ret.err = "nil"
  /\ sd.triggered
  /\ sd.currSample > 0
  /\ Len(sd.streamBuf) = sd.windowSize

\* C9: after successful DetectStream calls only, window k handed to
\* inference is samples (k-1)W+1 .. kW of what the caller supplied, in order
\* (0-based [(k-1)W, kW)), every completed window has been handed over, the
\* carry-over buffer holds the samples that follow, and currSample plus the
\* length of the carry-over buffer is the number of samples supplied.
C9_WindowAccumulation ==
  StreamedOnly =>
    /\ \A k \in 1..Len(hist) :
         /\ hist[k].ok
         /\ hist[k].window = [first |-> (k - 1) * W + 1, len |-> W, run |-> TRUE]
    /\ Len(hist) = fed \div W
    /\ sd.currSample = Len(hist) * W
    /\ sd.streamBuf = Samples(sd.currSample, Len(sd.streamBuf))
    /\ sd.currSample + Len(sd.streamBuf) = fed

\* C9 happens: three windows were assembled from chunks of 100 samples, a
\* window and the rest, none aligned with the window but the last.
C9_Witness ==
  /\ StreamedOnly
  /\ Len(hist) = 3
  /\ ret.n = 2 * W - 100
  /\ fed = 3 * W
  /\ sd.currSample = fed

\* C10: the carry-over buffer holds fewer samples than a window whenever a
\* call has returned.
C10_CarryOverBelowWindow == Len(sd.streamBuf) < sd.windowSize

\* The state C10 misses: DetectStream has returned the error of a failed
\* inference and the carry-over buffer holds a whole window.
C10_FullAfterFailure ==
  /\ ret.op = "DetectStream"
  /\ ret.err = "infer failed"
  /\ Len(sd.streamBuf) = sd.windowSize

\* The last call was a Detect or DetectStream call during which inference
\* failed.
FailedCall == ret.op \in {"Detect", "DetectStream"} /\ ret.err = "infer failed"

\* C11: a Detect or DetectStream call during which inference fails returns
\* an error and no segments, whatever the earlier windows of the call have
\* produced; the window that failed is the last one the call hands to
\* inference, and it is handed over once.
C11_NoPartialSuccess ==
  [][ failsLeft' < failsLeft =>
        /\ ret'.op \in {"Detect", "DetectStream"}
        /\ ret'.err = "infer failed"
        /\ ret'.segments = << >>
        /\ events' = events
        /\ Len(hist') > Len(hist)
        /\ SubSeq(hist', 1, Len(hist)) = hist
        /\ \A k \in (Len(hist) + 1)..Len(hist') : hist'[k].ok <=> k < Len(hist') ]_vars

\* C11 happens: inference failed on the second window of a call whose first
\* window had produced a start event.
C11_Witness ==
  /\ FailedCall
  /\ ret.n >= 2 * W
  /\ ret.segments = << >>
  /\ Len(hist) = 2
  /\ hist[1].ok /\ hist[1].event.hasStart
  /\ ~hist[2].ok

\* C12: in every state triggered is true exactly when pendingStartValid is
\* true, after every window as well as between calls, and no call has
\* returned the error "unexpected speech end".
C12_NoUnexpectedEnd ==
  /\ sd.triggered <=> sd.pendingStartValid
  /\ \A k \in 1..Len(hist) : hist[k].triggered <=> hist[k].pendingStartValid
  /\ ret.err # "unexpected speech end"

\* C12 happens: a segment has ended after an inference failure and a
\* SetThreshold call, in a recording that began after a Reset.
C12_Witness ==
  /\ "failure" \in used
  /\ "SetThreshold" \in used
  /\ \E k \in 1..Len(hist) : hist[k].event.hasEnd
  /\ ret.op \in {"Detect", "DetectStream"}
  /\ ret.err = "nil"
  /\ ~sd.triggered
  /\ sd.state # ZeroState

\* The fields NewDetector validates, in the order of the claim, and what is
\* asked of each.
ConfigFields == <<"ModelPath", "SampleRate", "Threshold", "MinSilenceDurationMs", "SpeechPadMs">>
FieldOk(c, f) ==
  CASE f = "ModelPath"            -> c.ModelPath # ""
    [] f = "SampleRate"           -> c.SampleRate \in {8000, 16000}
    [] f = "Threshold"            -> 0 < c.Threshold /\ c.Threshold < 100
    [] f = "MinSilenceDurationMs" -> c.MinSilenceDurationMs >= 0
    [] f = "SpeechPadMs"          -> c.SpeechPadMs >= 0
AllFieldsOk(c) == \A i \in 1..Len(ConfigFields) : FieldOk(c, ConfigFields[i])
FirstInvalidField(c) ==
  ConfigFields[CHOOSE i \in 1..Len(ConfigFields) :
                 /\ ~FieldOk(c, ConfigFields[i])
                 /\ \A j \in 1..(i - 1) : FieldOk(c, ConfigFields[j])]

\* NewDetector has returned a detector.
Constructed == "cfg" \in DOMAIN sd

\* C13: NewDetector returns a detector only for a configuration valid in
\* every field, and that detector carries the configuration; for any other
\* configuration it returns no detector and the error that names the first
\* invalid field in the order model path, sample rate, threshold, minimum
\* silence, padding.
C13_NewDetectorValidation ==
  (ret.op = "NewDetector" /\ "cfg" \in DOMAIN ret) =>
    /\ Constructed => (AllFieldsOk(ret.cfg) /\ ret.err = "nil" /\ sd = NewDetector(ret.cfg))
    /\ ~Constructed => ret.err # "nil"
    /\ ~AllFieldsOk(ret.cfg) =>
         (~Constructed /\ ret.err = "invalid " \o FirstInvalidField(ret.cfg))

\* The state C13 misses: NewDetector has returned a detector whose threshold
\* is NaN, which is not strictly between 0 and 1.
C13_NaNAccepted ==
  /\ ret.op = "NewDetector"
  /\ Constructed
  /\ ret.err = "nil"
  /\ sd.cfg.Threshold = NaN
  /\ ~AllFieldsOk(sd.cfg)

\* Whether a segment was open before window k of hist', a window of the call
\* just made.
OpenBefore(k) == IF k = Len(hist) + 1 THEN sd.triggered ELSE hist'[k - 1].triggered

\* C14: a SetThreshold call replaces the threshold and nothing else, in the
\* detector or in what has been returned, and returns no event; the windows
\* of the next call are judged against the threshold then in force: one
\* starts a segment exactly when none is open and its probability reaches
\* that threshold, and ends one only when its probability is more than 0.15
\* below it.
C14_SetThresholdFrame ==
  [][ /\ setsLeft' < setsLeft =>
           /\ sd' = [sd EXCEPT !.cfg.Threshold = sd'.cfg.Threshold]
           /\ sd'.cfg.Threshold \in SetThresholdValues
           /\ ret'.op = "SetThreshold"
           /\ ret'.segments = << >>
           /\ ret'.err = "nil"
           /\ hist' = hist
           /\ events' = events
           /\ fed' = fed
      /\ Len(hist') > Len(hist) =>
           \A k \in (Len(hist) + 1)..Len(hist') :
             hist'[k].ok =>
               /\ hist'[k].th = sd.cfg.Threshold
               /\ hist'[k].event.hasStart <=>
                    (FGeq(hist'[k].p, sd.cfg.Threshold) /\ ~OpenBefore(k))
               /\ hist'[k].event.hasEnd =>
                    FLess(hist'[k].p, FSub(sd.cfg.Threshold, ReleaseGap)) ]_vars

\* C14 happens: SetThreshold has lowered the threshold of a detector with an
\* open segment, a pending release and a partial window buffered.
C14_Witness ==
  /\ ret.op = "SetThreshold"
  /\ sd.cfg.Threshold = 30
  /\ sd.triggered
  /\ sd.pendingStartValid
  /\ sd.tempEnd # 0
  /\ sd.currSample > 0
  /\ Len(sd.streamBuf) > 0
  /\ sd.state # ZeroState

\* The segments DetectStream returns for the events of steps, in order: an
\* open segment for a start, a closed one for an end.
RECURSIVE EventSegments(_)
EventSegments(steps) ==
  IF steps = << >> THEN << >>
  ELSE (IF steps[1].event.hasStart THEN <<Segment(steps[1].event.startAt, 0)>> ELSE << >>)
       \o (IF steps[1].event.hasEnd
           THEN <<Segment(steps[1].event.endStartAt, steps[1].event.endAt)>> ELSE << >>)
       \o EventSegments(Tail(steps))

\* C15: what a successful DetectStream call returns is, window by window,
\* one segment for each start event and one for each end event; the segment
\* of a start event has SpeechEndAt = 0 and SpeechStartAt >= 0, and the
\* segment of an end event has SpeechEndAt > 0 and SpeechEndAt >
\* SpeechStartAt >= 0, so SpeechEndAt = 0 marks the start events and only
\* them.
C15_OpenMarker ==
  [][ (ret'.op = "DetectStream" /\ ret'.err = "nil" /\ Len(hist') >= Len(hist)) =>
        /\ ret'.segments = EventSegments(SubSeq(hist', Len(hist) + 1, Len(hist')))
        /\ \A k \in (Len(hist) + 1)..Len(hist') :
             /\ hist'[k].event.hasStart => hist'[k].event.startAt >= 0
             /\ hist'[k].event.hasEnd =>
                  /\ hist'[k].event.endAt > 0
                  /\ hist'[k].event.endStartAt >= 0
                  /\ hist'[k].event.endAt > hist'[k].event.endStartAt
        /\ \A i \in 1..Len(ret'.segments) :
             ret'.segments[i].SpeechEndAt = 0 <=>
               \E k \in (Len(hist) + 1)..Len(hist') :
                 /\ hist'[k].event.hasStart
                 /\ ret'.segments[i] = Segment(hist'[k].event.startAt, 0) ]_vars

\* C15 happens: one DetectStream call has returned an end event, whose
\* SpeechEndAt is not 0, followed by a start event, whose SpeechEndAt is 0,
\* with a padding longer than a window.
C15_Witness ==
  /\ ret.op = "DetectStream"
  /\ ret.err = "nil"
  /\ speechPadSamplesOf(sd) > W
  /\ Len(ret.segments) = 2
  /\ ret.segments[1].SpeechEndAt > 0
  /\ ret.segments[2].SpeechEndAt = 0
  /\ ret.segments[2].SpeechStartAt > 0

\* Only Detect calls since construction or the last Reset, none of them
\* with a failed inference.
BatchOnly == used = {"Detect"}

\* The first window of the call just made that ends a segment, when the call
\* began with a segment open and that window comes before any start.
FirstEndOfCall ==
  CHOOSE k \in (Len(hist) + 1)..Len(hist') :
    /\ hist'[k].event.hasEnd
    /\ \A j \in (Len(hist) + 1)..(k - 1) : ~hist'[j].event.hasEnd

\* C16: successive Detect calls over whole windows, without Reset, take the
\* detector through the steps one Detect call over the concatenation takes a
\* fresh detector through: the same windows, the same start and end events
\* with the same timestamps, the same final state.  A segment the earlier
\* calls left open is reported by the call in which it ends as the first
\* segment returned, closed, with the start the earlier call gave it.
C16_NoImplicitReset ==
  [][ (ret'.op = "Detect" /\ ret'.err = "nil" /\ used' = {"Detect"}) =>
        /\ hist' = Detect(NewDetector(sd.cfg), Samples(0, fed'), ProbsOf(hist'), 0).steps
        /\ sd' = Detect(NewDetector(sd.cfg), Samples(0, fed'), ProbsOf(hist'), 0).sd
        /\ \A k \in (Len(hist) + 1)..Len(hist') : hist'[k].currSample = k * W
        /\ (sd.triggered /\ \E k \in (Len(hist) + 1)..Len(hist') : hist'[k].event.hasEnd) =>
             /\ Len(ret'.segments) >= 1
             /\ ret'.segments[1] =
                  Segment(sd.pendingStart, hist'[FirstEndOfCall].event.endAt)
             /\ \E i \in 1..Len(hist) :
                  /\ hist[i].event.hasStart
                  /\ hist[i].event.startAt = ret'.segments[1].SpeechStartAt ]_vars

\* C16 happens: a second Detect call over two windows has returned, as a
\* closed segment, the segment the first call over two windows left open,
\* and a segment of its own after it.
C16_Witness ==
  /\ BatchOnly
  /\ ret.op = "Detect"
  /\ ret.n = 2 * W
  /\ Len(hist) = 4
  /\ hist[2].triggered
  /\ hist[3].event.hasEnd
  /\ Len(ret.segments) = 2
  /\ ret.segments[1] = Segment(hist[2].pendingStart, hist[3].event.endAt)
  /\ ret.segments[2].SpeechEndAt = 0

\* C17: a successful Detect over n samples processes the first n \div W
\* whole windows of its input and nothing else: currSample advances by
\* (n \div W) * W, and the carry-over buffer is what it was before the call,
\* so the trailing n % W samples are dropped.
C17_BatchTruncation ==
  [][ (ret'.op = "Detect" /\ ret'.err = "nil") =>
        /\ Len(hist') = Len(hist) + (ret'.n \div W)
        /\ \A j \in 1..(ret'.n \div W) :
             /\ hist'[Len(hist) + j].ok
             /\ hist'[Len(hist) + j].window = WindowSeen(Samples(fed + (j - 1) * W, W))
        /\ sd'.currSample = sd.currSample + (ret'.n \div W) * W
        /\ sd'.streamBuf = sd.streamBuf ]_vars

\* C17 happens: a Detect over two windows and 100 samples more succeeded on
\* a detector whose carry-over buffer held 100 samples.
C17_Witness ==
  /\ ret.op = "Detect"
  /\ ret.err = "nil"
  /\ ret.n = 2 * W + 100
  /\ ret.n % W # 0
  /\ Len(hist) = 2
  /\ sd.currSample = 2 * W
  /\ sd.streamBuf = Samples(0, 100)

\* The windows of the call just made whose inference succeeded.
InferredByCall == {k \in (Len(hist) + 1)..Len(hist') : hist'[k].ok}

\* C18: currSample is a multiple of the window size in every state, and any
\* call other than Reset raises it by one window size for each window the
\* call inferred successfully and by nothing else, so it never decreases.
C18_CurrSample ==
  [][ /\ sd.currSample % W = 0
      /\ sd'.currSample % W = 0
      /\ sd.currSample >= 0
      /\ ret'.op # "Reset" =>
           /\ Len(hist') >= Len(hist)
           /\ sd'.currSample >= sd.currSample
           /\ sd'.currSample = sd.currSample + Cardinality(InferredByCall) * W
           /\ \A k \in (Len(hist) + 1)..Len(hist') :
                hist'[k].currSample =
                  sd.currSample
                    + Cardinality({j \in (Len(hist) + 1)..k : hist'[j].ok}) * W ]_vars

\* C18 happens: Detect and DetectStream calls were mixed, one of them lost
\* its second window to a failed inference, and currSample stands at the two
\* windows that were inferred out of the three that were tried.
C18_Witness ==
  /\ {"Detect", "DetectStream", "failure"} \subseteq used
  /\ Len(hist) = 3
  /\ hist[1].ok /\ ~hist[2].ok /\ hist[3].ok
  /\ sd.currSample = 2 * W
  /\ fed > sd.currSample

\* The release point and the trigger before window k of the history: those
\* the window before it left, or those of construction and of Reset.
TempEndBefore(k) == IF k = 1 THEN 0 ELSE hist[k - 1].tempEnd
TriggeredBefore(k) == IF k = 1 THEN FALSE ELSE hist[k - 1].triggered

\* C19: a nonzero tempEnd goes with triggered and is at most currSample,
\* in the detector and after every window; a window gives tempEnd a new
\* nonzero value only if it is below the release threshold and found the
\* trigger set, and the value is the window's currSample; a window that
\* leaves the trigger clear leaves tempEnd zero.
C19_TempEnd ==
  /\ sd.tempEnd # 0 => (sd.triggered /\ sd.tempEnd <= sd.currSample /\ sd.tempEnd > 0)
  /\ Len(hist) > 0 =>
       /\ sd.tempEnd = hist[Len(hist)].tempEnd
       /\ sd.triggered = hist[Len(hist)].triggered
  /\ \A k \in 1..Len(hist) :
       /\ hist[k].tempEnd # 0 => (hist[k].triggered /\ hist[k].tempEnd <= hist[k].currSample)
       /\ ~hist[k].triggered => hist[k].tempEnd = 0
       /\ (hist[k].tempEnd # 0 /\ hist[k].tempEnd # TempEndBefore(k)) =>
            /\ BelowReleaseStep(hist[k])
            /\ TriggeredBefore(k)
            /\ hist[k].tempEnd = hist[k].currSample

\* C19 happens: the second window set a release point while a segment was
\* open, and after the third it is still pending, one window behind
\* currSample.
C19_Witness ==
  /\ Len(hist) = 3
  /\ hist[1].triggered /\ hist[1].tempEnd = 0
  /\ hist[2].tempEnd = hist[2].currSample
  /\ sd.triggered
  /\ sd.tempEnd = 2 * W
  /\ sd.currSample = 3 * W

\* Window k of the history produced a start or an end.
HasEvent(k) == hist[k].event.hasStart \/ hist[k].event.hasEnd

\* Window j is the last before window k to have produced an event.
LastEventBefore(j, k) ==
  /\ j < k
  /\ HasEvent(j)
  /\ \A m \in (j + 1)..(k - 1) : ~HasEvent(m)

\* C20: over the windows processed since construction or the last Reset, no
\* window produces both a start and an end; a start comes first or right
\* after an end; an end comes right after a start and carries that start's
\* timestamp.  A segment is open exactly when the last event is a start.
C20_Alternation ==
  /\ \A k \in 1..Len(hist) :
       /\ ~(hist[k].event.hasStart /\ hist[k].event.hasEnd)
       /\ hist[k].event.hasStart =>
            \A j \in 1..(k - 1) : LastEventBefore(j, k) => hist[j].event.hasEnd
       /\ hist[k].event.hasEnd =>
            \E j \in 1..(k - 1) :
              /\ LastEventBefore(j, k)
              /\ hist[j].event.hasStart
              /\ hist[k].event.endStartAt = hist[j].event.startAt
  /\ sd.pendingStartValid <=>
       \E j \in 1..Len(hist) : LastEventBefore(j, Len(hist) + 1) /\ hist[j].event.hasStart

\* C20 happens: three windows produced a start, the end of that segment and
\* the start of the next, over a Detect and a DetectStream call.
C20_Witness ==
  /\ {"Detect", "DetectStream"} \subseteq used
  /\ "failure" \notin used
  /\ Len(hist) = 3
  /\ hist[1].event.hasStart
  /\ hist[2].event.hasEnd
  /\ hist[2].event.endStartAt = hist[1].event.startAt
  /\ hist[3].event.hasStart
  /\ hist[3].event.startAt > hist[1].event.startAt

\* C21: the threshold of a constructed detector is strictly between 0 and 1
\* in every state, whatever operations were called, SetThreshold included.
C21_ThresholdInRange == FLess(0, sd.cfg.Threshold) /\ FLess(sd.cfg.Threshold, 100)

\* C21 fails: SetThreshold(1.0) was accepted, and a window has since been
\* judged against the threshold 1.0.
C21_ThresholdOutOfRange ==
  /\ "SetThreshold" \in used
  /\ sd.cfg.Threshold = 100
  /\ IsValid(sd.cfg) # "nil"
  /\ Len(hist) > 0
  /\ hist[Len(hist)].ok
  /\ hist[Len(hist)].th = 100

\* Window k of the history was inferred with a probability in the gap:
\* threshold - 0.15 <= p < threshold.
GapStep(s) == s.ok /\ FGeq(s.p, FSub(s.th, ReleaseGap)) /\ FLess(s.p, s.th)

\* The pending start before window k of the history.
PendingStartBefore(k) == IF k = 1 THEN 0 ELSE hist[k - 1].pendingStart
PendingStartValidBefore(k) == IF k = 1 THEN FALSE ELSE hist[k - 1].pendingStartValid

\* C22: a window with a probability in the gap emits no event and leaves
\* triggered, tempEnd, pendingStart and pendingStartValid as they were,
\* however long ago tempEnd was set; and a window that emits an end has a
\* probability below threshold - 0.15.
C22_HysteresisGap ==
  \A k \in 1..Len(hist) :
    /\ GapStep(hist[k]) =>
         /\ hist[k].event = NoEvent
         /\ hist[k].triggered = TriggeredBefore(k)
         /\ hist[k].tempEnd = TempEndBefore(k)
         /\ hist[k].pendingStart = PendingStartBefore(k)
         /\ hist[k].pendingStartValid = PendingStartValidBefore(k)
    /\ hist[k].event.hasEnd => BelowReleaseStep(hist[k])

\* C22 happens: a segment is open, a release has been pending for at least
\* the minimum silence when a window in the gap arrives, the segment stays
\* open through it, and the next window, below the release threshold,
\* ends the segment at the release point set before the gap.
C22_Witness ==
  /\ Len(hist) >= 5
  /\ hist[3].triggered
  /\ hist[3].tempEnd # 0
  /\ GapStep(hist[4])
  /\ hist[4].currSample - hist[3].tempEnd >= minSilenceSamplesOf(sd)
  /\ minSilenceSamplesOf(sd) > 0
  /\ hist[4].triggered
  /\ hist[4].tempEnd = hist[3].tempEnd
  /\ hist[5].event.hasEnd
  /\ hist[5].event.endAt = hist[3].tempEnd + speechPadSamplesOf(sd)

\* Each segment of the list starts no earlier than the one before it ends.
InOrder(segs) ==
  \A i \in 2..Len(segs) : segs[i].SpeechStartAt >= segs[i - 1].SpeechEndAt

\* The last call was a successful Detect, the only call since construction
\* or the last Reset.
FreshDetect ==
  /\ ret.op = "Detect"
  /\ ret.err = "nil"
  /\ BatchOnly
  /\ Len(hist) = ret.n \div W

\* C23: the segments Detect returns on a fresh detector, and the pairs
\* reconstructed from the events of DetectStream, are in time order and do
\* not overlap: each starts at or after the end of the one before it.
C23_NoOverlap ==
  /\ FreshDetect => InOrder(ret.segments)
  /\ StreamedOnly => InOrder(Pairs(events))

\* C23 fails: with a speech padding of 40 ms and no minimum silence, Detect
\* on a fresh detector met speech, one window below the release threshold
\* and speech again, and returned a second segment that starts before the
\* first one ends.
C23_Overlap ==
  /\ FreshDetect
  /\ sd.cfg.SpeechPadMs = 40
  /\ sd.cfg.MinSilenceDurationMs = 0
  /\ Len(hist) >= 3
  /\ hist[1].event.hasStart
  /\ hist[2].event.hasEnd
  /\ hist[3].event.hasStart
  /\ Len(ret.segments) >= 2
  /\ ret.segments[1] = Segment(0, 2 * W + speechPadSamplesOf(sd))
  /\ ret.segments[2].SpeechStartAt = 2 * W - speechPadSamplesOf(sd)
  /\ ret.segments[2].SpeechStartAt < ret.segments[1].SpeechEndAt

\* The fields of the trigger after window k of hist', for a call that began
\* at window Len(hist) + 1: those the window left, or, before the first
\* window of the call, those the detector had when the call began.
AfterWindow(k) ==
  IF k > Len(hist)
  THEN [currSample |-> hist'[k].currSample, triggered |-> hist'[k].triggered,
        tempEnd |-> hist'[k].tempEnd, pendingStart |-> hist'[k].pendingStart,
        pendingStartValid |-> hist'[k].pendingStartValid]
  ELSE [currSample |-> sd.currSample, triggered |-> sd.triggered,
        tempEnd |-> sd.tempEnd, pendingStart |-> sd.pendingStart,
        pendingStartValid |-> sd.pendingStartValid]

\* C24: when inference fails on a window, the call returns an error and no
\* segments, and currSample, triggered, tempEnd, pendingStart and
\* pendingStartValid are what the last successfully processed window left:
\* the failing window adds nothing, the windows of the call before it were
\* all inferred and each advanced currSample by a window.
C24_StateAfterFailure ==
  [][ failsLeft' < failsLeft =>
        /\ Len(hist') > Len(hist)
        /\ ~hist'[Len(hist')].ok
        /\ \A k \in (Len(hist) + 1)..(Len(hist') - 1) : hist'[k].ok
        /\ ret'.err # "nil"
        /\ ret'.segments = << >>
        /\ AfterWindow(Len(hist')) = AfterWindow(Len(hist') - 1)
        /\ sd'.currSample = AfterWindow(Len(hist') - 1).currSample
        /\ sd'.triggered = AfterWindow(Len(hist') - 1).triggered
        /\ sd'.tempEnd = AfterWindow(Len(hist') - 1).tempEnd
        /\ sd'.pendingStart = AfterWindow(Len(hist') - 1).pendingStart
        /\ sd'.pendingStartValid = AfterWindow(Len(hist') - 1).pendingStartValid
        /\ sd'.currSample = sd.currSample + (Len(hist') - 1 - Len(hist)) * W ]_vars

\* C24 happens: a DetectStream call opened a segment at its first window
\* and lost its second to a failed inference; it returned no segments, and
\* the detector is left triggered, one window on, with the start pending.
C24_Witness ==
  /\ ret.op = "DetectStream"
  /\ ret.err # "nil"
  /\ ret.segments = << >>
  /\ Len(hist) = 2
  /\ hist[1].ok
  /\ hist[1].event.hasStart
  /\ ~hist[2].ok
  /\ sd.triggered
  /\ sd.pendingStartValid
  /\ sd.pendingStart = hist[1].event.startAt
  /\ sd.currSample = W
  /\ sd.tempEnd = 0

====
